---- MODULE Spec2Model ----
(***************************************************************************)
(* wled_backup (src/src/main.rs): discovery of WLED devices over mDNS,     *)
(* resolution of the file-name stem from the device's cfg.json, and the    *)
(* sequential backup of cfg.json and presets.json of every device.         *)
(*                                                                         *)
(* Three specifications share the variables:                               *)
(*   SpecCfg      get_hostname_from_cfg applied to bounded JSON values     *)
(*   SpecDiscover discover_wleds: the recv_timeout loop and the HashMap    *)
(*   SpecBackup   backup_wleds / backup_wled / the exit status of main     *)
(* Strings that the program inspects (id.name, bodies, file contents) are  *)
(* sequences; a body is a sequence of byte chunks.                         *)
(***************************************************************************)
EXTENDS Integers, Sequences, FiniteSets, TLC

VARIABLES
    pc,                \* position of the flow of control
    \* ---- discover_wleds
    search_duration,   \* the time budget handed to recv_timeout, in ticks
    waited,            \* ticks spent in the current recv_timeout call
    elapsed,           \* ticks since discover_wleds started
    lastEventAt,       \* value of elapsed when the last event was received
    received,          \* the events received so far, in order
    wleds,             \* the HashMap hostname -> ServiceInfo
    returned,          \* the Vec returned by discover_wleds
    stdout,            \* the lines printed so far
    \* ---- get_hostname_from_cfg / backup_wled
    cfg_json,          \* the parsed configuration document
    hostname,          \* the result of get_hostname_from_cfg
    \* ---- backup_wleds / backup_wled / main
    devices,           \* the Vec<ServiceInfo> handed to backup_wleds
    idx,               \* index of the device of the current loop iteration
    ip,                \* the address picked for the current device
    cfg_response,      \* what the device served for /cfg.json
    cfg_response_str,  \* the decoded text of that response
    presets_response,  \* what the device served for /presets.json
    files,             \* the output directory: file name -> content
    before,            \* the output directory when backup_wled was entered
    result,            \* the value backup_wled returned
    final_result,      \* the accumulator of backup_wleds
    exit_code,         \* the exit status of the process
    outcomes,          \* per finished loop iteration: what happened
    requests           \* the HTTP requests issued so far, in order

vars == <<pc, search_duration, waited, elapsed, lastEventAt, received, wleds,
          returned, stdout, cfg_json, hostname, devices, idx, ip, cfg_response,
          cfg_response_str, presets_response, files, before, result,
          final_result, exit_code, outcomes, requests>>

discoverVars == <<search_duration, waited, elapsed, lastEventAt, received,
                  wleds, returned>>
backupVars == <<devices, idx, ip, cfg_response, cfg_response_str,
                presets_response, files, before, result, final_result,
                exit_code, outcomes, requests>>

(***************************************************************************)
(* Bounds of the model.                                                    *)
(***************************************************************************)
MaxNameLen == 3      \* longest id.name handed to get_hostname_from_cfg
MaxEvents == 3       \* discovery events received in one run
MaxSearchSecs == 2   \* largest time budget, in ticks
MaxDevices == 2      \* longest device list handed to backup_wleds

None == [some |-> FALSE]
Some(x) == [some |-> TRUE, v |-> x]
Ok(x) == [ok |-> TRUE, v |-> x]
Err(e) == [ok |-> FALSE, err |-> e]
Unit == "()"
Unset == "unset"

RECURSIVE SeqsUpTo(_, _)
SeqsUpTo(S, n) ==
    IF n = 0 THEN {<<>>}
    ELSE LET shorter == SeqsUpTo(S, n - 1)
         IN shorter \cup {Append(s, c) : s \in shorter, c \in S}

(***************************************************************************)
(* serde_json::Value, and the accessors get_hostname_from_cfg uses.        *)
(***************************************************************************)
JNull == [kind |-> "null"]
JNum(n) == [kind |-> "number", n |-> n]
JStr(s) == [kind |-> "string", s |-> s]
JArr(a) == [kind |-> "array", a |-> a]
JObj(m) == [kind |-> "object", m |-> m]

\* Value::get with a string index: None unless self is an object with the key.
Get(v, key) ==
    IF v.kind = "object" /\ key \in DOMAIN v.m THEN Some(v.m[key]) ELSE None

\* Value::as_str: None unless self is a string.
as_str(v) == IF v.kind = "string" THEN Some(v.s) ELSE None

Whitespace == {" ", "\t", "\n"}

RECURSIVE trim_start(_)
trim_start(s) ==
    IF s # <<>> /\ Head(s) \in Whitespace THEN trim_start(Tail(s)) ELSE s

RECURSIVE trim_end(_)
trim_end(s) ==
    IF s # <<>> /\ s[Len(s)] \in Whitespace
    THEN trim_end(SubSeq(s, 1, Len(s) - 1))
    ELSE s

\* str::trim
trim(s) == trim_end(trim_start(s))

MsgMissingId == "Missing 'id' field in cfg.json"
MsgMissingName == "Missing 'name' field in cfg.json"
MsgNotString == "Expected 'name' to be a string in cfg.json"
MsgEmpty == "Hostname is empty or contains only whitespace"

\* The same function with the name trimmed before it is returned.
get_hostname_trimmed(cfg) ==
    LET id == Get(cfg, "id") IN
    IF ~id.some THEN Err(MsgMissingId) ELSE
    LET name == Get(id.v, "name") IN
    IF ~name.some THEN Err(MsgMissingName) ELSE
    LET str == as_str(name.v) IN
    IF ~str.some THEN Err(MsgNotString) ELSE
    IF trim(str.v) = <<>> THEN Err(MsgEmpty) ELSE Ok(trim(str.v))

get_hostname_from_cfg(cfg) ==
    LET id == Get(cfg, "id") IN
    IF ~id.some THEN Err(MsgMissingId) ELSE
    LET name == Get(id.v, "name") IN
    IF ~name.some THEN Err(MsgMissingName) ELSE
    LET str == as_str(name.v) IN
    IF ~str.some THEN Err(MsgNotString) ELSE
    IF trim(str.v) = <<>> THEN Err(MsgEmpty) ELSE Ok(str.v)

(***************************************************************************)
(* The JSON documents get_hostname_from_cfg is applied to in SpecCfg.      *)
(***************************************************************************)
NameChars == {"w", "d", " ", "\t"}
Names == SeqsUpTo(NameChars, MaxNameLen)

NameValues ==
    {JStr(n) : n \in Names}
        \cup {JNull, JNum(123), JArr(<<>>), JObj([other |-> JStr(<<"v">>)])}

IdValues ==
    {JObj([name |-> nv]) : nv \in NameValues}
        \cup {JObj([name |-> nv, other |-> JNull]) : nv \in {JStr(<<"w">>), JNum(123)}}
        \cup {JObj([other |-> JStr(<<"v">>)]), JNull, JStr(<<"w">>), JArr(<<>>)}

CfgValues ==
    {JObj([id |-> iv]) : iv \in IdValues}
        \cup {JObj([other |-> JStr(<<"v">>)]), JNull, JArr(<<>>), JStr(<<"w">>)}

(***************************************************************************)
(* The values of the variables a specification does not use.               *)
(***************************************************************************)
IdleDiscover ==
    /\ search_duration = 0
    /\ waited = 0
    /\ elapsed = 0
    /\ lastEventAt = 0
    /\ received = <<>>
    /\ wleds = <<>>
    /\ returned = <<>>

IdleCfg ==
    /\ cfg_json = JNull
    /\ hostname = Unset

IdleBackup ==
    /\ devices = <<>>
    /\ idx = 0
    /\ ip = Unset
    /\ cfg_response = Err("not requested")
    /\ cfg_response_str = Unset
    /\ presets_response = Err("not requested")
    /\ files = <<>>
    /\ before = <<>>
    /\ result = Unset
    /\ final_result = Ok(Unit)
    /\ exit_code = Unset
    /\ outcomes = <<>>
    /\ requests = <<>>

(***************************************************************************)
(* SpecCfg: get_hostname_from_cfg applied to one JSON value.               *)
(***************************************************************************)
InitCfg ==
    /\ pc = "cfg_call"
    /\ cfg_json \in CfgValues
    /\ hostname = Unset
    /\ stdout = <<>>
    /\ IdleDiscover
    /\ IdleBackup

ResolveCfg ==
    /\ pc = "cfg_call"
    /\ hostname' = get_hostname_from_cfg(cfg_json)
    /\ pc' = "cfg_done"
    /\ UNCHANGED <<cfg_json, stdout, discoverVars, backupVars>>

NextCfg == ResolveCfg

SpecCfg == InitCfg /\ [][NextCfg]_vars

\* The four conditions of the claim, read off the document itself.
CfgHasId == cfg_json.kind = "object" /\ "id" \in DOMAIN cfg_json.m
CfgId == cfg_json.m["id"]
CfgHasName == CfgHasId /\ CfgId.kind = "object" /\ "name" \in DOMAIN CfgId.m
CfgName == CfgId.m["name"]
CfgNameIsString == CfgHasName /\ CfgName.kind = "string"
CfgNameNonBlank ==
    CfgNameIsString /\ \E k \in 1..Len(CfgName.s) : CfgName.s[k] \notin Whitespace

\* C7: get_hostname_from_cfg returns id.name unchanged (surrounding
\* whitespace kept) exactly when id exists, id.name exists, is a string and
\* has a non-whitespace character; otherwise it returns the message of the
\* first failing condition, in the order missing id, missing name, name not a
\* string, name empty or whitespace-only; the four messages differ pairwise.
C7_ConfigDerivedIdentity ==
    /\ Cardinality({MsgMissingId, MsgMissingName, MsgNotString, MsgEmpty}) = 4
    /\ pc = "cfg_done" =>
        /\ hostname.ok <=> CfgNameNonBlank
        /\ CfgNameNonBlank => hostname = Ok(CfgName.s)
        /\ ~CfgHasId => hostname = Err(MsgMissingId)
        /\ CfgHasId /\ ~CfgHasName => hostname = Err(MsgMissingName)
        /\ CfgHasName /\ ~CfgNameIsString => hostname = Err(MsgNotString)
        /\ CfgNameIsString /\ ~CfgNameNonBlank => hostname = Err(MsgEmpty)

\* A name with surrounding whitespace was resolved and returned as it is.
C7_Witness ==
    /\ pc = "cfg_done"
    /\ CfgNameNonBlank
    /\ CfgName.s = <<" ", "w", "\t">>
    /\ hostname = Ok(<<" ", "w", "\t">>)

(***************************************************************************)
(* SpecDiscover: discover_wleds.  Time is counted in ticks; a call of      *)
(* recv_timeout(search_duration) returns an event that arrives before      *)
(* search_duration ticks have passed in that call, and a timeout otherwise.*)
(***************************************************************************)
ServiceInfos ==
    {[fullname |-> "a._wled._tcp.local.", hostname |-> "wled-a.local.",
      addresses |-> {"192.168.1.10"}, port |-> 80],
     [fullname |-> "a._wled._tcp.local.", hostname |-> "wled-a.local.",
      addresses |-> {"192.168.1.11"}, port |-> 8080],
     [fullname |-> "A._wled._tcp.local.", hostname |-> "WLED-A.local.",
      addresses |-> {"192.168.1.20"}, port |-> 80],
     [fullname |-> "A._wled._tcp.local.", hostname |-> "WLED-A.local.",
      addresses |-> {"192.168.1.20", "192.168.1.21"}, port |-> 80]}

NoInfo == "-"
ResolvedEvents == {[kind |-> "ServiceResolved", info |-> si] : si \in ServiceInfos}
OtherEvents ==
    {[kind |-> k, info |-> NoInfo] : k \in {"ServiceFound", "ServiceRemoved"}}
ServiceEvents == ResolvedEvents \cup OtherEvents

\* HashMap::insert
Insert(map, key, value) ==
    [k \in DOMAIN map \cup {key} |-> IF k = key THEN value ELSE map[k]]

\* ASCII lower case of the host names of the model.
Lower(h) == IF h = "WLED-A.local." THEN "wled-a.local." ELSE h

\* The ServiceResolved arm with an unconditional insert.
on_resolved_overwrite(map, info) == Insert(map, info.hostname, info)

\* The ServiceResolved arm with the key folded to lower case.
on_resolved_caseless(map, info) ==
    IF Lower(info.hostname) \notin DOMAIN map
    THEN Insert(map, Lower(info.hostname), info)
    ELSE map

\* The ServiceResolved arm of the match: the map after the event.
on_resolved(map, info) ==
    IF info.hostname \notin DOMAIN map
    THEN Insert(map, info.hostname, info)
    ELSE map

\* The line printed for every resolved event.
discovered_lines_always(map, info) == <<<<"Discovered: ", info.fullname>>>>

\* What the ServiceResolved arm prints.
discovered_lines(map, info) ==
    IF info.hostname \notin DOMAIN map
    THEN <<<<"Discovered: ", info.fullname>>>>
    ELSE <<>>

\* A wait that goes on from where the previous one stopped.
wait_continued(w) == w

\* Every loop iteration calls recv_timeout with the whole search_duration.
wait_restarted(w) == 0

\* HashMap::into_values().collect(): the values in some order.
ValueOrders(map) ==
    {s \in SeqsUpTo({map[k] : k \in DOMAIN map}, Cardinality(DOMAIN map)) :
        /\ Len(s) = Cardinality(DOMAIN map)
        /\ {s[k] : k \in 1..Len(s)} = {map[k] : k \in DOMAIN map}}

InitDiscover ==
    /\ pc = "recv"
    /\ search_duration \in 1..MaxSearchSecs
    /\ waited = 0
    /\ elapsed = 0
    /\ lastEventAt = 0
    /\ received = <<>>
    /\ wleds = <<>>
    /\ returned = <<>>
    /\ stdout = <<>>
    /\ IdleCfg
    /\ IdleBackup

\* recv_timeout returns Ok(ServiceResolved(info)).
RecvResolved ==
    /\ pc = "recv"
    /\ waited < search_duration
    /\ Len(received) < MaxEvents
    /\ \E event \in ResolvedEvents :
        /\ received' = Append(received, event)
        /\ wleds' = on_resolved(wleds, event.info)
        /\ stdout' = stdout \o discovered_lines(wleds, event.info)
    /\ waited' = wait_restarted(waited)
    /\ lastEventAt' = elapsed
    /\ UNCHANGED <<pc, search_duration, elapsed, returned, cfg_json, hostname,
                   backupVars>>

\* An event of another kind that takes a record out of the map.
RecvOtherRemoves ==
    /\ pc = "recv"
    /\ waited < search_duration
    /\ Len(received) < MaxEvents
    /\ \E event \in OtherEvents : received' = Append(received, event)
    /\ IF DOMAIN wleds = {}
       THEN wleds' = wleds
       ELSE \E h \in DOMAIN wleds :
                wleds' = [k \in DOMAIN wleds \ {h} |-> wleds[k]]
    /\ waited' = wait_restarted(waited)
    /\ lastEventAt' = elapsed
    /\ UNCHANGED <<pc, search_duration, elapsed, returned, stdout,
                   cfg_json, hostname, backupVars>>

\* recv_timeout returns Ok(event) of another kind.
RecvOther ==
    /\ pc = "recv"
    /\ waited < search_duration
    /\ Len(received) < MaxEvents
    /\ \E event \in OtherEvents : received' = Append(received, event)
    /\ waited' = wait_restarted(waited)
    /\ lastEventAt' = elapsed
    /\ UNCHANGED <<pc, search_duration, elapsed, wleds, returned, stdout,
                   cfg_json, hostname, backupVars>>

\* One tick passes while recv_timeout waits.
Tick ==
    /\ pc = "recv"
    /\ waited < search_duration
    /\ waited' = waited + 1
    /\ elapsed' = elapsed + 1
    /\ UNCHANGED <<pc, search_duration, lastEventAt, received, wleds, returned,
                   stdout, cfg_json, hostname, backupVars>>

\* recv_timeout returns Err(Timeout): the loop ends and the values are returned.
Timeout ==
    /\ pc = "recv"
    /\ waited >= search_duration
    /\ \E order \in ValueOrders(wleds) : returned' = order
    /\ pc' = "collected"
    /\ UNCHANGED <<search_duration, waited, elapsed, lastEventAt, received,
                   wleds, stdout, cfg_json, hostname, backupVars>>

NextDiscover == RecvResolved \/ RecvOther \/ Tick \/ Timeout

SpecDiscover == InitDiscover /\ [][NextDiscover]_vars

\* Time passes, and recv_timeout returns when its budget is used up.
LiveDiscover == SpecDiscover /\ WF_vars(Tick) /\ WF_vars(Timeout)

ResolvedAt(h) ==
    {k \in 1..Len(received) :
        received[k].kind = "ServiceResolved" /\ received[k].info.hostname = h}
FirstResolved(h) ==
    received[CHOOSE k \in ResolvedAt(h) : \A j \in ResolvedAt(h) : k <= j].info
LastResolved(h) ==
    received[CHOOSE k \in ResolvedAt(h) : \A j \in ResolvedAt(h) : k >= j].info
ResolvedHostnames ==
    {received[k].info.hostname :
        k \in {j \in 1..Len(received) : received[j].kind = "ServiceResolved"}}

C6_OnePerHostname ==
    pc = "collected" =>
        /\ {returned[k].hostname : k \in 1..Len(returned)} = ResolvedHostnames
        /\ \A j, k \in 1..Len(returned) :
            returned[j].hostname = returned[k].hostname => j = k

\* Both hostnames, which differ in case only, were resolved, one of them twice.
C6_Witness ==
    /\ pc = "collected"
    /\ Len(returned) = 2
    /\ Len(received) = 3
    /\ \A k \in 1..3 : received[k].kind = "ServiceResolved"

\* C8: collection stops exactly when a whole search_duration has passed
\* since the last received event (or since the start when there was none):
\* never earlier, never later, whatever the kind of the events; and it does
\* stop once events no longer arrive.
C8_BoundedDiscovery ==
    /\ [](pc = "collected" => elapsed - lastEventAt = search_duration)
    /\ [](pc = "recv" => elapsed - lastEventAt <= search_duration)
    /\ [](pc = "recv" => waited = elapsed - lastEventAt)
    /\ <>(pc = "collected")

\* Collection ended later than one budget after the start, after events of
\* both kinds, the last one an ignored event.
C8_Witness ==
    /\ pc = "collected"
    /\ elapsed > search_duration
    /\ Len(received) >= 2
    /\ received[1].kind = "ServiceResolved"
    /\ received[Len(received)].kind # "ServiceResolved"

(***************************************************************************)
(* SpecBackup: backup_wleds, backup_wled and the exit status of main.      *)
(* A body is a sequence of byte chunks; a chunk of an id.name is one       *)
(* character.  BadByte is a byte that is not valid UTF-8, Replacement is   *)
(* U+FFFD as text() and the file hold it.                                  *)
(***************************************************************************)
BadByte == "\\xFF"
Replacement == "\\uFFFD"
CfgOpen == "{\"id\":{\"name\":\""
CfgClose == "\"}}"

\* cfg_body of the tests: the configuration document of a device named name.
cfg_body(name) == <<CfgOpen>> \o name \o <<CfgClose>>

BodyNoId == <<"{\"other\":\"value\"}">>
BodyNoName == <<"{\"id\":{\"other\":\"value\"}}">>
BodyNameNumber == <<"{\"id\":{\"name\":", "123", "}}">>
BodyInvalidJson == <<"invalid json ", "content">>
BodyNotFound == <<"not ", "found">>
BodyPresets == <<"presets ", "data">>
BodyPresetsOther == <<"presets ", "other">>
BodyOldCfg == <<"old cfg">>
BodyOldPresets == <<"old presets">>

\* reqwest Response::text: the body decoded as UTF-8, every malformed
\* sequence replaced by U+FFFD.
text(body) ==
    [k \in 1..Len(body) |-> IF body[k] = BadByte THEN Replacement ELSE body[k]]

\* The characters a JSON string of the model holds unescaped.
StringChars == {"w", "d", " ", Replacement}

\* serde_json::from_str on the documents of the model.
from_str(str) ==
    IF str = BodyNoId
    THEN Ok(JObj([other |-> JStr(<<"value">>)]))
    ELSE IF str = BodyNoName
    THEN Ok(JObj([id |-> JObj([other |-> JStr(<<"value">>)])]))
    ELSE IF str = BodyNameNumber
    THEN Ok(JObj([id |-> JObj([name |-> JNum(123)])]))
    ELSE IF /\ Len(str) >= 2
            /\ str[1] = CfgOpen
            /\ str[Len(str)] = CfgClose
            /\ \A k \in 2..(Len(str) - 1) : str[k] \in StringChars
    THEN Ok(JObj([id |-> JObj([name |-> JStr(SubSeq(str, 2, Len(str) - 1))])]))
    ELSE Err("expected value at line 1 column 1")

cfg_file_name(name) == name \o <<"_cfg.json">>
presets_file_name(name) == name \o <<"_presets.json">>

\* What a GET can come back with: a transport error, or a response with a
\* status and a body; readable is FALSE when the body cannot be read to its
\* end.
TransportError == Err("error sending request")
NotRequested == Err("not requested")
Response(status, body, readable) ==
    Ok([status |-> status, body |-> body, readable |-> readable])

CfgBodies ==
    {BodyInvalidJson, BodyNoId, BodyNoName, BodyNameNumber, cfg_body(<<" ">>),
     cfg_body(<<"w">>), cfg_body(<<" ", "d">>), cfg_body(<<"w", BadByte>>)}

CfgGetResults ==
    {TransportError}
        \cup {Response(200, b, TRUE) : b \in CfgBodies}
        \cup {Response(200, cfg_body(<<"w">>), FALSE)}
        \cup {Response(404, b, TRUE) : b \in {BodyNotFound, cfg_body(<<"w">>)}}

PresetsGetResults ==
    {TransportError, Response(200, BodyPresets, TRUE),
     Response(200, BodyPresetsOther, TRUE), Response(404, BodyNotFound, TRUE)}

DeviceRecords ==
    {[fullname |-> "a._wled._tcp.local.", hostname |-> "wled-a.local.",
      addresses |-> {"127.0.0.1"}, port |-> 80],
     [fullname |-> "b._wled._tcp.local.", hostname |-> "wled-b.local.",
      addresses |-> {"127.0.0.1", "::1"}, port |-> 8080],
     [fullname |-> "c._wled._tcp.local.", hostname |-> "wled-c.local.",
      addresses |-> {}, port |-> 80]}

DeviceLists ==
    {s \in SeqsUpTo(DeviceRecords, MaxDevices) :
        \A j, k \in 1..Len(s) : s[j] = s[k] => j = k}

\* The output directory before the run: empty, or holding an earlier backup.
InitialDirs ==
    {<<>>,
     [f \in {cfg_file_name(<<"w">>), presets_file_name(<<"w">>)} |->
        IF f = cfg_file_name(<<"w">>) THEN BodyOldCfg ELSE BodyOldPresets]}

\* File::create: the file exists and is empty afterwards.
create(dir, name) == Insert(dir, name, <<>>)

\* The first n chunks of content have reached the file.
written(dir, name, content, n) == Insert(dir, name, SubSeq(content, 1, n))

Failure(stage, message) == Err([stage |-> stage, message |-> message])

\* A loop that leaves at the first failure, as the ? operator would.
after_verdict_abort(r) == IF r.ok THEN "loop" ELSE "finished"

\* The for loop goes on with the next device whatever backup_wled returned.
after_verdict(r) == "loop"

\* An accumulator that takes the result of every device.
accumulate_latest(acc, r) == r

\* final_result = Err(result) under if let Err(result), untouched otherwise.
accumulate(acc, r) == IF r.ok THEN acc ELSE r

\* main: exit(1) under if let Err, the normal end of main otherwise.
exit_status(r) == IF r.ok THEN 0 ELSE 1

InitBackup ==
    /\ pc = "loop"
    /\ devices \in DeviceLists
    /\ idx = 0
    /\ ip = Unset
    /\ cfg_response = Err("not requested")
    /\ cfg_response_str = Unset
    /\ presets_response = Err("not requested")
    /\ files \in InitialDirs
    /\ before = files
    /\ result = Unset
    /\ final_result = Ok(Unit)
    /\ exit_code = Unset
    /\ outcomes = <<>>
    /\ requests = <<>>
    /\ stdout = <<>>
    /\ IdleCfg
    /\ IdleDiscover

Outcome(attempted) ==
    [device |-> idx, attempted |-> attempted, result |-> result,
     hostname |-> hostname, cfg |-> cfg_response, presets |-> presets_response]

Request(path, response) ==
    [device |-> idx, ip |-> ip, port |-> devices[idx].port, path |-> path,
     response |-> response]

\* backup_wled returns r.
Return(r) ==
    /\ result' = r
    /\ pc' = "verdict"

\* A device without an address reported and counted as a failed backup.
LoopSkipAsFailure ==
    /\ pc = "loop"
    /\ idx < Len(devices)
    /\ devices[idx + 1].addresses = {}
    /\ idx' = idx + 1
    /\ stdout' = stdout \o <<<<"Backing up ", devices[idx + 1].hostname>>,
                             <<"  FAILED: ", "no address">>>>
    /\ final_result' = Failure("no_address", "no address")
    /\ outcomes' = Append(outcomes,
            [device |-> idx + 1, attempted |-> FALSE, result |-> Unset,
             hostname |-> Unset, cfg |-> NotRequested,
             presets |-> NotRequested])
    /\ UNCHANGED <<pc, devices, ip, cfg_response, cfg_response_str,
                   presets_response, files, before, result, exit_code,
                   requests, cfg_json, hostname, discoverVars>>

\* The device has no address: nothing is done for it.
LoopSkip ==
    /\ pc = "loop"
    /\ idx < Len(devices)
    /\ devices[idx + 1].addresses = {}
    /\ idx' = idx + 1
    /\ outcomes' = Append(outcomes,
            [device |-> idx + 1, attempted |-> FALSE, result |-> Unset,
             hostname |-> Unset, cfg |-> NotRequested,
             presets |-> NotRequested])
    /\ UNCHANGED <<pc, devices, ip, cfg_response, cfg_response_str,
                   presets_response, files, before, result, final_result,
                   exit_code, requests, stdout, cfg_json, hostname,
                   discoverVars>>

\* The device has an address: backup_wled is called with one of them.
LoopEnter ==
    /\ pc = "loop"
    /\ idx < Len(devices)
    /\ devices[idx + 1].addresses # {}
    /\ idx' = idx + 1
    /\ \E a \in devices[idx + 1].addresses : ip' = a
    /\ stdout' = Append(stdout, <<"Backing up ", devices[idx + 1].hostname>>)
    /\ before' = files
    /\ cfg_response' = NotRequested
    /\ cfg_response_str' = Unset
    /\ presets_response' = NotRequested
    /\ cfg_json' = JNull
    /\ hostname' = Unset
    /\ result' = Unset
    /\ pc' = "get_cfg"
    /\ UNCHANGED <<devices, files, final_result, exit_code, outcomes, requests,
                   discoverVars>>

\* reqwest::blocking::get(url_cfg) fails.
GetCfgError ==
    /\ pc = "get_cfg"
    /\ cfg_response' = TransportError
    /\ requests' = Append(requests, Request("/cfg.json", TransportError))
    /\ Return(Failure("get_cfg", TransportError.err))
    /\ UNCHANGED <<devices, idx, ip, cfg_response_str, presets_response, files,
                   before, final_result, exit_code, outcomes, stdout, cfg_json,
                   hostname, discoverVars>>

\* get(url_cfg) returns a response whose body text() cannot read.
GetCfgTextError ==
    /\ pc = "get_cfg"
    /\ \E r \in {x \in CfgGetResults : x.ok /\ ~x.v.readable} :
        /\ cfg_response' = r
        /\ requests' = Append(requests, Request("/cfg.json", r))
    /\ Return(Failure("text", "error decoding response body"))
    /\ UNCHANGED <<devices, idx, ip, cfg_response_str, presets_response, files,
                   before, final_result, exit_code, outcomes, stdout, cfg_json,
                   hostname, discoverVars>>

\* Both requests issued up front, before the configuration is looked at.
GetCfgOkPrefetch ==
    /\ pc = "get_cfg"
    /\ \E r \in {x \in CfgGetResults : x.ok /\ x.v.readable} :
        /\ cfg_response' = r
        /\ \E p \in PresetsGetResults :
            requests' = requests \o <<Request("/cfg.json", r),
                                      Request("/presets.json", p)>>
        /\ cfg_response_str' = text(r.v.body)
    /\ pc' = "parse"
    /\ UNCHANGED <<devices, idx, ip, presets_response, files, before, result,
                   final_result, exit_code, outcomes, stdout, cfg_json,
                   hostname, discoverVars>>

\* get(url_cfg) returns a response, of any status, and text() decodes it.
GetCfgOk ==
    /\ pc = "get_cfg"
    /\ \E r \in {x \in CfgGetResults : x.ok /\ x.v.readable} :
        /\ cfg_response' = r
        /\ requests' = Append(requests, Request("/cfg.json", r))
        /\ cfg_response_str' = text(r.v.body)
    /\ pc' = "parse"
    /\ UNCHANGED <<devices, idx, ip, presets_response, files, before, result,
                   final_result, exit_code, outcomes, stdout, cfg_json,
                   hostname, discoverVars>>

\* The parse and the identity resolution placed after a save of the text
\* under a fixed name.
ParseAndResolveSavingFirst ==
    /\ pc = "parse"
    /\ LET parsed == from_str(cfg_response_str)
           h == get_hostname_from_cfg(parsed.v)
           saved == written(files, cfg_file_name(<<"w">>), cfg_response_str,
                            Len(cfg_response_str))
       IN  /\ files' = saved
           /\ IF ~parsed.ok
              THEN /\ Return(Failure("from_str", parsed.err))
                   /\ UNCHANGED <<cfg_json, hostname, stdout>>
              ELSE /\ cfg_json' = parsed.v
                   /\ hostname' = h
                   /\ IF h.ok
                      THEN /\ stdout' = Append(stdout, <<"  host name: ", h.v>>)
                           /\ pc' = "create_cfg"
                           /\ UNCHANGED result
                      ELSE /\ Return(Failure("identity", h.err))
                           /\ UNCHANGED stdout
    /\ UNCHANGED <<devices, idx, ip, cfg_response, cfg_response_str,
                   presets_response, before, final_result, exit_code, outcomes,
                   requests, discoverVars>>

\* serde_json::from_str, get_hostname_from_cfg and the host name line.
ParseAndResolve ==
    /\ pc = "parse"
    /\ LET parsed == from_str(cfg_response_str)
           h == get_hostname_from_cfg(parsed.v)
       IN  IF ~parsed.ok
           THEN /\ Return(Failure("from_str", parsed.err))
                /\ UNCHANGED <<cfg_json, hostname, stdout>>
           ELSE /\ cfg_json' = parsed.v
                /\ hostname' = h
                /\ IF h.ok
                   THEN /\ stdout' = Append(stdout, <<"  host name: ", h.v>>)
                        /\ pc' = "create_cfg"
                        /\ UNCHANGED result
                   ELSE /\ Return(Failure("identity", h.err))
                        /\ UNCHANGED stdout
    /\ UNCHANGED <<devices, idx, ip, cfg_response, cfg_response_str,
                   presets_response, files, before, final_result, exit_code,
                   outcomes, requests, discoverVars>>

\* File::create(cfg_path) fails.
CreateCfgError ==
    /\ pc = "create_cfg"
    /\ Return(Failure("create_cfg", "permission denied"))
    /\ UNCHANGED <<devices, idx, ip, cfg_response, cfg_response_str,
                   presets_response, files, before, final_result, exit_code,
                   outcomes, requests, stdout, cfg_json, hostname, discoverVars>>

\* File::create(cfg_path): the file is created, or truncated when it exists.
CreateCfgOk ==
    /\ pc = "create_cfg"
    /\ files' = create(files, cfg_file_name(hostname.v))
    /\ pc' = "write_cfg"
    /\ UNCHANGED <<devices, idx, ip, cfg_response, cfg_response_str,
                   presets_response, before, result, final_result, exit_code,
                   outcomes, requests, stdout, cfg_json, hostname, discoverVars>>

\* write_all fails after some of the text has been written.
WriteCfgError ==
    /\ pc = "write_cfg"
    /\ \E n \in 0..(Len(cfg_response_str) - 1) :
        files' = written(files, cfg_file_name(hostname.v), cfg_response_str, n)
    /\ Return(Failure("write_cfg", "no space left on device"))
    /\ UNCHANGED <<devices, idx, ip, cfg_response, cfg_response_str,
                   presets_response, before, final_result, exit_code, outcomes,
                   requests, stdout, cfg_json, hostname, discoverVars>>

\* write_all and flush succeed: the file holds the decoded text.
WriteCfgOk ==
    /\ pc = "write_cfg"
    /\ files' = written(files, cfg_file_name(hostname.v), cfg_response_str,
                        Len(cfg_response_str))
    /\ stdout' = Append(stdout, <<"  saved: ", cfg_file_name(hostname.v)>>)
    /\ pc' = "get_presets"
    /\ UNCHANGED <<devices, idx, ip, cfg_response, cfg_response_str,
                   presets_response, before, result, final_result, exit_code,
                   outcomes, requests, cfg_json, hostname, discoverVars>>

\* A failed presets request that takes back the cfg file saved before it.
GetPresetsErrorRollback ==
    /\ pc = "get_presets"
    /\ presets_response' = TransportError
    /\ requests' = Append(requests, Request("/presets.json", TransportError))
    /\ files' = [f \in DOMAIN files \ {cfg_file_name(hostname.v)} |-> files[f]]
    /\ Return(Failure("get_presets", TransportError.err))
    /\ UNCHANGED <<devices, idx, ip, cfg_response, cfg_response_str, before,
                   final_result, exit_code, outcomes, stdout, cfg_json,
                   hostname, discoverVars>>

\* reqwest::blocking::get(url_presets) fails.
GetPresetsError ==
    /\ pc = "get_presets"
    /\ presets_response' = TransportError
    /\ requests' = Append(requests, Request("/presets.json", TransportError))
    /\ Return(Failure("get_presets", TransportError.err))
    /\ UNCHANGED <<devices, idx, ip, cfg_response, cfg_response_str, files,
                   before, final_result, exit_code, outcomes, stdout, cfg_json,
                   hostname, discoverVars>>

\* get(url_presets) returns a response, of any status.
GetPresetsOk ==
    /\ pc = "get_presets"
    /\ \E r \in {x \in PresetsGetResults : x.ok} :
        /\ presets_response' = r
        /\ requests' = Append(requests, Request("/presets.json", r))
    /\ pc' = "create_presets"
    /\ UNCHANGED <<devices, idx, ip, cfg_response, cfg_response_str, files,
                   before, result, final_result, exit_code, outcomes, stdout,
                   cfg_json, hostname, discoverVars>>

\* File::create(presets_path) fails.
CreatePresetsError ==
    /\ pc = "create_presets"
    /\ Return(Failure("create_presets", "permission denied"))
    /\ UNCHANGED <<devices, idx, ip, cfg_response, cfg_response_str,
                   presets_response, files, before, final_result, exit_code,
                   outcomes, requests, stdout, cfg_json, hostname, discoverVars>>

\* File::create(presets_path): the file is created, or truncated.
CreatePresetsOk ==
    /\ pc = "create_presets"
    /\ files' = create(files, presets_file_name(hostname.v))
    /\ pc' = "copy_presets"
    /\ UNCHANGED <<devices, idx, ip, cfg_response, cfg_response_str,
                   presets_response, before, result, final_result, exit_code,
                   outcomes, requests, stdout, cfg_json, hostname, discoverVars>>

\* copy fails, reading the body or writing the file, after some chunks.
CopyPresetsError ==
    /\ pc = "copy_presets"
    /\ \E n \in 0..(Len(presets_response.v.body) - 1) :
        files' = written(files, presets_file_name(hostname.v),
                         presets_response.v.body, n)
    /\ Return(Failure("copy_presets", "connection reset"))
    /\ UNCHANGED <<devices, idx, ip, cfg_response, cfg_response_str,
                   presets_response, before, final_result, exit_code, outcomes,
                   requests, stdout, cfg_json, hostname, discoverVars>>

\* copy streams the whole body into the file; backup_wled returns Ok(()).
CopyPresetsOk ==
    /\ pc = "copy_presets"
    /\ files' = written(files, presets_file_name(hostname.v),
                        presets_response.v.body, Len(presets_response.v.body))
    /\ stdout' = Append(stdout, <<"  saved: ", presets_file_name(hostname.v)>>)
    /\ Return(Ok(Unit))
    /\ UNCHANGED <<devices, idx, ip, cfg_response, cfg_response_str,
                   presets_response, before, final_result, exit_code, outcomes,
                   requests, cfg_json, hostname, discoverVars>>

\* What backup_wleds prints once backup_wled has returned r.
verdict_lines(r) ==
    IF r.ok
    THEN <<<<"  SUCCESS">>>>
    ELSE <<<<"  FAILED: ", r.err.message>>, <<"  SUCCESS">>>>

\* backup_wleds takes the result of backup_wled and goes on with the loop.
Verdict ==
    /\ pc = "verdict"
    /\ stdout' = stdout \o verdict_lines(result)
    /\ final_result' = accumulate(final_result, result)
    /\ outcomes' = Append(outcomes, Outcome(TRUE))
    /\ pc' = after_verdict(result)
    /\ UNCHANGED <<devices, idx, ip, cfg_response, cfg_response_str,
                   presets_response, files, before, result, exit_code, requests,
                   cfg_json, hostname, discoverVars>>

\* The loop has gone through the list: backup_wleds returns final_result.
LoopEnd ==
    /\ pc = "loop"
    /\ idx = Len(devices)
    /\ pc' = "finished"
    /\ UNCHANGED <<stdout, cfg_json, hostname, discoverVars, backupVars>>

\* main: exit(1) when backup_wleds returned Err, "Finished" and the normal
\* end of the process otherwise.
MainExit ==
    /\ pc = "finished"
    /\ exit_code' = exit_status(final_result)
    /\ stdout' = IF final_result.ok THEN Append(stdout, <<"Finished">>) ELSE stdout
    /\ pc' = "exit"
    /\ UNCHANGED <<devices, idx, ip, cfg_response, cfg_response_str,
                   presets_response, files, before, result, final_result,
                   outcomes, requests, cfg_json, hostname, discoverVars>>

NextBackup ==
    \/ LoopSkip \/ LoopEnter \/ LoopEnd
    \/ GetCfgError \/ GetCfgTextError \/ GetCfgOk
    \/ ParseAndResolve
    \/ CreateCfgError \/ CreateCfgOk
    \/ WriteCfgError \/ WriteCfgOk
    \/ GetPresetsError \/ GetPresetsOk
    \/ CreatePresetsError \/ CreatePresetsOk
    \/ CopyPresetsError \/ CopyPresetsOk
    \/ Verdict
    \/ MainExit

SpecBackup == InitBackup /\ [][NextBackup]_vars

(***************************************************************************)
(* What the claims about SpecBackup speak of.                              *)
(***************************************************************************)
Attempted(k) == outcomes[k].attempted
Failed(k) == Attempted(k) /\ ~outcomes[k].result.ok
Succeeded(k) == Attempted(k) /\ outcomes[k].result.ok

\* The stages of backup_wled that come before the first File::create.
EarlyStages == {"get_cfg", "text", "from_str", "identity"}
\* The stages that fail on the local file or on the body stream, after
\* both documents have been requested.
LocalStages == {"create_presets", "copy_presets"}

NonSuccess(r) == r.ok /\ r.v.status \notin 200..299
Served(r) == r.ok /\ r.v.status \in 200..299 /\ r.v.readable

\* The call of backup_wled that has just returned, read off what was served.
CfgFetchFailed == ~cfg_response.ok \/ ~cfg_response.v.readable
CfgInvalidJson == ~CfgFetchFailed /\ ~from_str(text(cfg_response.v.body)).ok
IdentityFails ==
    /\ ~CfgFetchFailed
    /\ from_str(text(cfg_response.v.body)).ok
    /\ cfg_json = from_str(text(cfg_response.v.body)).v
    /\ ~CfgNameNonBlank
NameResolved == result.ok \/ result.err.stage \notin EarlyStages

Untouched(f) ==
    \/ f \notin DOMAIN files /\ f \notin DOMAIN before
    \/ f \in DOMAIN files /\ f \in DOMAIN before /\ files[f] = before[f]
Holds(f, content) == f \in DOMAIN files /\ files[f] = content

\* C1: when backup_wleds has gone through the list, every device with an
\* address has had backup_wled called for it (its /cfg.json was requested),
\* also every device after one that failed; every device whose backup
\* succeeded has its two files in the output directory, and a device that
\* was served both documents fails on its presets file or stream only.
C1_PartialFailureIsolation ==
    pc \in {"finished", "exit"} =>
        /\ Len(outcomes) = Len(devices)
        /\ \A k \in 1..Len(devices) :
            devices[k].addresses # {} =>
                /\ Attempted(k)
                /\ \E q \in 1..Len(requests) :
                    requests[q].device = k /\ requests[q].path = "/cfg.json"
        /\ \A k \in 1..Len(outcomes) :
            /\ Succeeded(k) =>
                /\ cfg_file_name(outcomes[k].hostname.v) \in DOMAIN files
                /\ presets_file_name(outcomes[k].hostname.v) \in DOMAIN files
            /\ Failed(k) /\ Served(outcomes[k].cfg) /\ Served(outcomes[k].presets) =>
                outcomes[k].result.err.stage \in LocalStages

\* The first device failed on an unreachable server, the second one, after
\* it, was served and has its files.
C1_Witness ==
    /\ pc = "finished"
    /\ Len(outcomes) = 2
    /\ Failed(1)
    /\ outcomes[1].result.err.stage = "get_cfg"
    /\ Succeeded(2)
    /\ Served(outcomes[2].cfg)
    /\ Served(outcomes[2].presets)
    /\ cfg_file_name(outcomes[2].hostname.v) \in DOMAIN files

\* C2: the accumulator of backup_wleds is Ok exactly while every device
\* attempted so far returned Ok, so it stays Err from the first failure on
\* whatever later devices return; the process exits with status 1 exactly
\* when backup_wleds returned Err and with status 0 otherwise.
C2_BatchAggregate ==
    /\ final_result.ok <=> \A k \in 1..Len(outcomes) : ~Failed(k)
    /\ pc = "exit" =>
        /\ exit_code \in {0, 1}
        /\ exit_code = 1 <=> ~final_result.ok
        /\ exit_code = 1 <=> \E k \in 1..Len(outcomes) : Failed(k)

\* A failure followed by a success: the process exits with status 1.
C2_Witness ==
    /\ pc = "exit"
    /\ Len(outcomes) = 2
    /\ Failed(1)
    /\ Succeeded(2)
    /\ exit_code = 1

\* C3: when get or text of /cfg.json returns an error, or the text is not
\* valid JSON, or identity resolution fails, backup_wled returns an error and
\* the output directory is what it was when backup_wled was entered: no file
\* created, none modified.
C3_FetchBeforeWrite ==
    pc = "verdict" /\ (CfgFetchFailed \/ CfgInvalidJson \/ IdentityFails) =>
        /\ ~result.ok
        /\ result.err.stage \in EarlyStages
        /\ files = before

\* Identity resolution failed on a whitespace-only name while the directory
\* held an earlier backup.
C3_Witness ==
    /\ pc = "verdict"
    /\ IdentityFails
    /\ CfgNameIsString
    /\ result.err.message = MsgEmpty
    /\ DOMAIN files # {}

\* C4 as stated: a non-2xx response to either GET makes backup_wled return
\* an error, and its body is not what a file written by this call holds.
C4_NonSuccessStatusFails ==
    pc = "verdict" =>
        \A q \in 1..Len(requests) :
            requests[q].device = idx /\ NonSuccess(requests[q].response) =>
                /\ ~result.ok
                /\ \A f \in DOMAIN files :
                    ~Untouched(f) =>
                        /\ files[f] # requests[q].response.v.body
                        /\ files[f] # text(requests[q].response.v.body)

\* C9 as stated: after a successful backup_wled the cfg file holds exactly
\* the body served for /cfg.json and the presets file exactly the body
\* served for /presets.json.
C9_RoundTrip ==
    pc = "verdict" /\ result.ok =>
        /\ Holds(cfg_file_name(hostname.v), cfg_response.v.body)
        /\ Holds(presets_file_name(hostname.v), presets_response.v.body)

\* C10 as stated: when backup_wled has returned, each of the two files of
\* the device is untouched or holds the complete fetched content.
C10_AllOrNothing ==
    pc = "verdict" /\ NameResolved =>
        /\ \/ Untouched(cfg_file_name(hostname.v))
           \/ Holds(cfg_file_name(hostname.v), cfg_response_str)
        /\ \/ Untouched(presets_file_name(hostname.v))
           \/ /\ presets_response.ok
              /\ Holds(presets_file_name(hostname.v), presets_response.v.body)

\* The stages of backup_wled that come after the cfg file has been saved.
PresetsStages == {"get_presets", "create_presets", "copy_presets"}

\* The presets request of the call that has just returned failed, or it was
\* answered and the call failed afterwards, on the presets file or stream.
PresetsFailed ==
    \/ presets_response = TransportError
    \/ presets_response.ok /\ ~result.ok

\* C11: when the cfg file has been saved and the presets request, the
\* creation of the presets file or the copy of the body fails, backup_wled
\* returns an error, the cfg file is still there with the fetched
\* configuration text as content, and the failure makes the batch result Err
\* and the exit status 1.
C11_NoRollback ==
    /\ pc = "verdict" /\ PresetsFailed =>
        /\ ~result.ok
        /\ result.err.stage \in PresetsStages
        /\ Holds(cfg_file_name(hostname.v), cfg_response_str)
    /\ \A k \in 1..Len(outcomes) :
        Attempted(k)
            /\ (outcomes[k].presets = TransportError
                \/ (outcomes[k].presets.ok /\ ~outcomes[k].result.ok)) =>
            /\ ~final_result.ok
            /\ pc = "exit" => exit_code = 1

\* The presets body broke off during the copy, after the cfg file had been
\* written over an earlier backup of the same name.
C11_Witness ==
    /\ pc = "verdict"
    /\ presets_response.ok
    /\ ~result.ok
    /\ result.err.stage = "copy_presets"
    /\ cfg_file_name(hostname.v) \in DOMAIN before
    /\ Holds(cfg_file_name(hostname.v), cfg_response_str)

\* The loop is about to take a device that has no address.
AtAddresslessDevice ==
    pc = "loop" /\ idx < Len(devices) /\ devices[idx + 1].addresses = {}

\* C12: the loop iteration of a device without an address issues no
\* request, writes no file, prints nothing and leaves the batch result as it
\* is; no request and no "Backing up" line ever names such a device.
C12_EmptyAddressSkipped ==
    /\ [][AtAddresslessDevice =>
            /\ requests' = requests
            /\ files' = files
            /\ stdout' = stdout
            /\ final_result' = final_result]_vars
    /\ [](\A k \in 1..Len(devices) :
            devices[k].addresses = {} =>
                /\ \A q \in 1..Len(requests) : requests[q].device # k
                /\ \A n \in 1..Len(stdout) :
                    stdout[n] # <<"Backing up ", devices[k].hostname>>
                /\ k <= Len(outcomes) => ~Attempted(k))

\* A device without an address came first, the device after it was backed
\* up, and the process ended with status 0 and two requests in all.
C12_Witness ==
    /\ pc = "exit"
    /\ Len(devices) = 2
    /\ devices[1].addresses = {}
    /\ Succeeded(2)
    /\ exit_code = 0
    /\ Len(requests) = 2

\* The resolved events received, in order, the others left out.
ResolvedOnly ==
    SelectSeq(received, LAMBDA e : e.kind = "ServiceResolved")

\* The records of a sequence of resolved events, one per hostname: the
\* record of the first event of each hostname.
KeptFrom(events) ==
    {events[k].info : k \in {n \in 1..Len(events) :
        \A j \in 1..(n - 1) :
            events[j].info.hostname # events[n].info.hostname}}

\* An event of a kind other than ServiceResolved is being received.
OtherEventReceived ==
    /\ Len(received') = Len(received) + 1
    /\ received'[Len(received')].kind # "ServiceResolved"

\* C13: receiving an event of a kind other than ServiceResolved leaves the
\* collected records unchanged and prints nothing, and the returned set is
\* determined by the resolved events alone, in the order received.
C13_OtherEventsIgnored ==
    /\ [][OtherEventReceived => wleds' = wleds /\ stdout' = stdout]_vars
    /\ [](pc = "collected" =>
            {returned[k] : k \in 1..Len(returned)} = KeptFrom(ResolvedOnly))

\* Events of other kinds came after and between resolved events, and the
\* set was returned with the record resolved before them.
C13_Witness ==
    /\ pc = "collected"
    /\ Len(received) = 3
    /\ received[1].kind = "ServiceResolved"
    /\ received[2].kind = "ServiceRemoved"
    /\ received[3].kind = "ServiceFound"
    /\ Len(returned) = 1
    /\ returned[1] = received[1].info

\* The Discovered lines of a sequence of events: one for each resolved event
\* whose hostname is not among those seen before it.
RECURSIVE DiscoveredOnce(_, _)
DiscoveredOnce(events, seen) ==
    IF events = <<>> THEN <<>>
    ELSE LET e == Head(events) IN
         IF e.kind = "ServiceResolved" /\ e.info.hostname \notin seen
         THEN <<<<"Discovered: ", e.info.fullname>>>>
                \o DiscoveredOnce(Tail(events), seen \cup {e.info.hostname})
         ELSE DiscoveredOnce(Tail(events), seen)

\* C14: the lines printed by discover_wleds are the Discovered lines of the
\* first resolved event of each hostname, in the order of those events: one
\* line per distinct hostname, none for a later event of a known hostname,
\* none for an event of another kind.
C14_DiscoveredOnce ==
    /\ stdout = DiscoveredOnce(received, {})
    /\ Len(stdout) = Cardinality(ResolvedHostnames)

\* One hostname was resolved twice with another one in between: two lines.
C14_Witness ==
    /\ pc = "collected"
    /\ Len(received) = 3
    /\ \A k \in 1..3 : received[k].kind = "ServiceResolved"
    /\ received[1].info.hostname = received[3].info.hostname
    /\ received[1].info # received[3].info
    /\ received[2].info.hostname # received[1].info.hostname
    /\ Len(stdout) = 2

SuccessLines == {n \in 1..Len(stdout) : stdout[n][1] = "  SUCCESS"}
FailedLines == {n \in 1..Len(stdout) : stdout[n][1] = "  FAILED: "}

\* C15 as stated: every attempted device has exactly one verdict line,
\* FAILED when backup_wled returned an error and SUCCESS when it returned
\* Ok: there are as many SUCCESS lines as devices that succeeded and as many
\* FAILED lines as devices that failed.
C15_OneVerdictLine ==
    /\ Cardinality(SuccessLines) =
            Cardinality({k \in 1..Len(outcomes) : Succeeded(k)})
    /\ Cardinality(FailedLines) =
            Cardinality({k \in 1..Len(outcomes) : Failed(k)})

\* C16 as stated, for a run in which every device was answered with 2xx, the
\* cfg content compared as decoded text: when backup_wleds returns Ok, every
\* device that was backed up has, under its id.name, a cfg file and a presets
\* file holding what this device served, also when two devices report the
\* same id.name.
C16_NoCrossDeviceOverwrite ==
    /\ pc \in {"finished", "exit"}
    /\ final_result.ok
    /\ \A k \in 1..Len(outcomes) :
        Attempted(k) => Served(outcomes[k].cfg) /\ Served(outcomes[k].presets)
    => \A k \in 1..Len(outcomes) :
        Succeeded(k) =>
            /\ Holds(cfg_file_name(outcomes[k].hostname.v),
                     text(outcomes[k].cfg.v.body))
            /\ Holds(presets_file_name(outcomes[k].hostname.v),
                     outcomes[k].presets.v.body)

\* The positions inside backup_wled, and the one where it has returned.
CallStages ==
    {"get_cfg", "parse", "create_cfg", "write_cfg", "get_presets",
     "create_presets", "copy_presets", "verdict"}

RequestsOf(k, path) ==
    {q \in 1..Len(requests) : requests[q].device = k /\ requests[q].path = path}

\* C17: inside backup_wled no file is created or changed before /cfg.json
\* has been answered, parsed and the identity resolved; /presets.json is
\* requested once at most, after the /cfg.json request of the same device
\* and with the cfg file written; a device whose configuration fetch, parse
\* or identity resolution failed never gets a /presets.json request.
C17_StepOrder ==
    /\ pc \in {"get_cfg", "parse", "create_cfg"} => files = before
    /\ pc \in CallStages /\ files # before =>
        /\ \E q \in RequestsOf(idx, "/cfg.json") : requests[q].response.ok
        /\ from_str(cfg_response_str).ok
        /\ cfg_json = from_str(cfg_response_str).v
        /\ CfgNameNonBlank
    /\ \A q \in 1..Len(requests) :
        requests[q].path = "/presets.json" =>
            /\ \E c \in RequestsOf(requests[q].device, "/cfg.json") :
                c < q /\ requests[c].response.ok
            /\ Cardinality(RequestsOf(requests[q].device, "/presets.json")) = 1
    /\ pc \in CallStages /\ RequestsOf(idx, "/presets.json") # {} =>
        /\ pc \in {"create_presets", "copy_presets", "verdict"}
        /\ Holds(cfg_file_name(hostname.v), cfg_response_str)
    /\ pc = "verdict" /\ (CfgFetchFailed \/ CfgInvalidJson \/ IdentityFails) =>
        RequestsOf(idx, "/presets.json") = {}
    /\ \A k \in 1..Len(outcomes) :
        Failed(k) /\ outcomes[k].result.err.stage \in EarlyStages =>
            RequestsOf(k, "/presets.json") = {}

\* The first device failed at identity resolution and got one request; the
\* second one has its cfg file written and its presets request answered.
C17_Witness ==
    /\ pc = "create_presets"
    /\ Len(outcomes) = 1
    /\ Failed(1)
    /\ outcomes[1].result.err.stage = "identity"
    /\ Len(requests) = 3
    /\ requests[3].path = "/presets.json"
    /\ Holds(cfg_file_name(hostname.v), cfg_response_str)
====
